---- MODULE Spec2Model ----
(***************************************************************************)
(* A model of the zotero-add tools.                                        *)
(*                                                                         *)
(*   lib/zotero_backup.py      the backup command: the environment check,  *)
(*                             the paginated item listing, the walk over   *)
(*                             items, attachments and annotations, the     *)
(*                             attachment download and the git snapshot    *)
(*   lib/zotero_annotate.py    the client used by the Markdown exporter    *)
(*   lib/export_annotations.py the Markdown exporter: the export loop,     *)
(*                             the author tags and the file name           *)
(*                                                                         *)
(* Every action is one request to the remote library (or one local step)   *)
(* together with all the code that runs until the next request.  The       *)
(* remote library, the HTTP answers, git and the clock are the             *)
(* environment: an answer is chosen when the request is made, and what it  *)
(* tells about the library stays true for the rest of the behaviour.       *)
(***************************************************************************)
EXTENDS Integers, Sequences, FiniteSets, TLC

\* ------------------------------------------------------------------ bounds
\* The remote library holds at most MaxItems top-level items.
MaxItems == 2
\* --per-page ranges over 1..MaxPerPage.
MaxPerPage == 2
\* At most MaxFaults requests (or git commands) of one behaviour get an
\* answer other than the plain success.
MaxFaults == 1
\* A listing on its own is run against a server of up to MaxPaged items.
MaxPaged == 5

VARIABLES
    \* ---- the backup command (lib/zotero_backup.py)
    environ,     \* os.environ: ZOTERO_API_KEY and ZOTERO_LIBRARY_ID
    args,        \* the parsed command line
    remote,      \* the remote library: what the server holds
    pc,          \* where the command is
    items,       \* list_all_items: the items collected so far
    start,       \* list_all_items: the offset of the next request
    starts,      \* list_all_items: the start parameter of each request made
    batches,     \* list_all_items: the size of each batch received
    idx,         \* backup: the position of the item being backed up
    cidx,        \* backup: the position of the child being handled
    children,    \* backup: the children of the current item
    files,       \* the output directory: path -> content
    nreq,        \* the number of HTTP requests issued by this run
    lastReq,     \* the last request answered, and whether a sleep followed it
    err,         \* the exception that left backup(), if one did
    exitStatus,  \* the status the process ended with
    out,         \* the kinds of message printed by this run
    repo,        \* whether the output directory is a git repository
    head,        \* the tree of the last commit of that repository
    gitLog,      \* the git commands this run executed
    now,         \* the clock
    faultsLeft,  \* how many more non-plain answers the environment may give
    run,         \* 1 for the first run of the command, 2 for the second
    runsLeft,    \* how many more times the command will be started
    files1,      \* the output directory as the first run left it
    head1,       \* the last commit as the first run left it
    faultLog,    \* the non-plain answers this run got: <<request number, answer>>
    faultLog1,   \* those of the first run
    \* ---- the Markdown exporter (lib/export_annotations.py)
    ex,          \* export(): the run of the export command
    tg,          \* write_markdown_for_item: a creator and the tags made of it
    fl           \* write_markdown_for_item: an item and the file name made of it

vars == <<environ, args, remote, pc, items, start, starts, batches, idx, cidx,
          children, files, nreq, lastReq, err, exitStatus, out, repo, head,
          gitLog, now, faultsLeft, run, runsLeft, files1, head1, faultLog,
          faultLog1, ex, tg, fl>>

\* The state of the backup command, and that of the exporter.
bvars == <<environ, args, remote, pc, items, start, starts, batches, idx, cidx,
           children, files, nreq, lastReq, err, exitStatus, out, repo, head,
           gitLog, now, faultsLeft, run, runsLeft, files1, head1, faultLog,
           faultLog1>>
mdvars == <<ex, tg, fl>>

\* ----------------------------------------------------------------- helpers
Min(a, b) == IF a <= b THEN a ELSE b

RECURSIVE Sum(_)
Sum(s) == IF s = <<>> THEN 0 ELSE s[1] + Sum(Tail(s))

\* The sequences over S of length at most n.
SeqUpTo(S, n) == UNION {[1..k -> S] : k \in 0..n}

\* A Python string is falsy when it is None (here Unset) or empty.
Unset == "<unset>"
Truthy(v) == v # Unset /\ v # ""

\* env_get / os.environ.get
env_get(name, default) ==
    IF environ[name] = Unset THEN default ELSE environ[name]

\* ---------------------------------------------------------------- the remote
\* Link relations of an attachment record, in the order the server lists them.
\* A link object is a dict with an href ("href"), a dict with none ("nohref")
\* or something that is no dict ("notdict").
NamedLinks == <<"enclosure", "file", "link", "attachment">>
LinkObjects == {"href", "nohref", "notdict"}

\* A child as the server holds it: its type, its links, whether its data
\* names a file (filename or title), and how many annotations are under it.
Note == [itemType |-> "note", links |-> <<>>, filename |-> FALSE, anns |-> 0]
Attachment(links, filename, anns) ==
    [itemType |-> "attachment", links |-> links, filename |-> filename, anns |-> anns]

NoLinks == <<>>
EnclosureLink == << <<"self", "href">>, <<"enclosure", "href">> >>
SelfLink == << <<"self", "href">> >>

\* The children lists a top-level item may have; every item of one library
\* has the same one.
Shapes ==
    { <<>>,
      << Note, Attachment(NoLinks, TRUE, 1) >>,
      << Attachment(NoLinks, FALSE, 0), Attachment(EnclosureLink, TRUE, 1) >>,
      << Attachment(SelfLink, TRUE, 0) >> }

\* What the server holds is learnt from its answers and then stays as it is:
\* remote.script[k] is the size of the batch the server gives to the k-th
\* request of a listing, remote.shape the children of an item (once
\* remote.known).  A later run gets the same answers.
\* remote.cap bounds the number of items the server holds.
NoRemote(cap) == [script |-> <<>>, shape |-> <<>>, known |-> FALSE, cap |-> cap]

\* The sizes the k-th batch may have, for a request of l items from offset s.
BatchSizes(k, s, l) ==
    IF k <= Len(remote.script) THEN {Min(remote.script[k], l)}
    ELSE 0..Min(l, IF s < remote.cap THEN remote.cap - s ELSE 0)

\* The answer of the server to GET /items/top?start=s&limit=l with a batch of
\* `size` items: the items at offsets s+1 .. s+size, named by their offset.
PageAnswer(s, size) == [j \in 1..size |-> s + j]

\* The children lists the server may answer with.
ShapeChoices == IF remote.known THEN {remote.shape} ELSE Shapes

\* Keys: item i has key <<i>>, its j-th child has key <<i, j>>.
ItemKey(i) == <<i>>
ChildRecord(key, c) ==
    [key |-> key, links |-> c.links,
     data |-> [itemType |-> c.itemType, filename |-> c.filename],
     anns |-> c.anns]
ChildrenOf(i, shape) == [j \in 1..Len(shape) |-> ChildRecord(<<i, j>>, shape[j])]

\* HTTP statuses the server answers with.
Statuses == {200, 204, 404, 429}
PlainAnswer == [status |-> 200, stream |-> "full"]
Answers == [status : Statuses, stream : {"full", "broken"}]
\* The answers to a request for JSON: the body is not streamed, and a
\* success carries the list asked for.
JsonAnswers == {a \in Answers : a.stream = "full" /\ a.status # 204}

\* ------------------------------------------------------------- the file system
ItemPathStamped(key) == [dir |-> "items", key |-> key \o <<now>>, name |-> "json"]
ItemPath(key) == [dir |-> "items", key |-> key, name |-> "json"]
AttMetaPath(key) == [dir |-> "attachments", key |-> key, name |-> "json"]
AttFilePath(key, name) == [dir |-> "attachments", key |-> key, name |-> name]
AnnPath(key) == [dir |-> "annotations", key |-> key, name |-> "json"]
ManifestPath == [dir |-> "meta", key |-> <<>>, name |-> "backup_meta.json"]
GitIgnorePath == [dir |-> ".", key |-> <<>>, name |-> ".gitignore"]

Content(kind, of, stamp) == [kind |-> kind, of |-> of, stamp |-> stamp]

\* Path.write_text / open(path, "wb"): create or overwrite.
WriteFile(fs, path, content) == (path :> content) @@ fs

\* ------------------------------------------------------------ the environment
\* The environment gives the answer `a` to request number nreq + 1 of the run:
\* an answer other than the plain success is one of the MaxFaults faults.
Charge(a) ==
    IF a = PlainAnswer
    THEN /\ faultsLeft' = faultsLeft
         /\ faultLog' = faultLog
    ELSE /\ faultsLeft > 0
         /\ faultsLeft' = faultsLeft - 1
         /\ faultLog' = faultLog \cup {<<nreq + 1, a>>}

\* A request: the endpoint, the status of the answer, whether a response was
\* returned to the caller, the size of the list in it, whether
\* time.sleep(sleep_between_requests) followed, and for a download the name
\* of the destination file.
NoRequest ==
    [kind |-> "none", status |-> 0, answered |-> FALSE, size |-> 0,
     slept |-> FALSE, dest |-> ""]
Request(kind, status, answered, size, slept) ==
    [kind |-> kind, status |-> status, answered |-> answered, size |-> size,
     slept |-> slept, dest |-> ""]
FileRequest(kind, status, answered, dest) ==
    [kind |-> kind, status |-> status, answered |-> answered, size |-> 0,
     slept |-> FALSE, dest |-> dest]

NoError == [at |-> "none", exc |-> "none"]

\* ------------------------------------------------------------------- _get
\* ZoteroBackup._get: what a response of the given status becomes.
_get(status) ==
    IF status = 429 THEN "RuntimeError"
    ELSE IF status >= 400 THEN "HTTPError"
    ELSE "ok"

\* ------------------------------------------------------- the backup command
\* backup(), lines 305-311: the check of the environment.
MissingEnvBoth(api_key, lib_id) == ~Truthy(api_key) /\ ~Truthy(lib_id)
MissingEnv(api_key, lib_id) == ~Truthy(api_key) \/ ~Truthy(lib_id)

\* An exception leaves zb.backup(): backup() prints it and raises it again.
Raise(at, exc) ==
    /\ pc' = "raised"
    /\ err' = [at |-> at, exc |-> exc]
    /\ exitStatus' = 1
    /\ out' = out \cup {"error"}

\* backup(): the arguments are parsed, the environment is read, and either
\* the process exits with status 2 or the ZoteroBackup object is built and
\* zb.backup() starts.
backup_main ==
    /\ pc = "start"
    /\ LET api_key == env_get("ZOTERO_API_KEY", Unset)
           lib_id == env_get("ZOTERO_LIBRARY_ID", Unset)
       IN  IF MissingEnv(api_key, lib_id)
           THEN /\ pc' = "exit"
                /\ exitStatus' = 2
                /\ out' = out \cup {"missing_env"}
           ELSE /\ pc' = "list"
                /\ exitStatus' = exitStatus
                /\ out' = out \cup {"starting"}
    /\ UNCHANGED <<environ, args, remote, items, start, starts, batches, idx,
                   cidx, children, files, nreq, lastReq, err, repo, head,
                   gitLog, now, faultsLeft, run, runsLeft, files1, head1,
                   faultLog, faultLog1>>
    /\ UNCHANGED mdvars

\* list_all_items, line 115: the batch that ends the loop after it is kept.
ShortBatchOrFull(size) == size <= args.per_page
ShortBatch(size) == size < args.per_page

\* list_all_items, line 113.
NextStart(s, size) == s + size

\* list_all_items: one round of the loop, from the request to the break or
\* the next round.
list_all_items ==
    /\ pc = "list"
    /\ \E a \in JsonAnswers :
        /\ Charge(a)
        /\ nreq' = nreq + 1
        /\ starts' = Append(starts, start)
        /\ IF _get(a.status) # "ok"
           THEN /\ Raise("list_all_items", _get(a.status))
                /\ lastReq' = Request("items", a.status, FALSE, 0, FALSE)
                /\ UNCHANGED <<remote, items, start, batches>>
           ELSE \E size \in BatchSizes(Len(starts) + 1, start, args.per_page) :
                /\ remote' = IF Len(starts) + 1 <= Len(remote.script) THEN remote
                             ELSE [remote EXCEPT !.script = Append(@, size)]
                /\ batches' = Append(batches, size)
                /\ IF size = 0
                   THEN /\ pc' = "manifest"
                        /\ lastReq' = Request("items", a.status, TRUE, size, FALSE)
                        /\ UNCHANGED <<items, start>>
                   ELSE /\ items' = items \o PageAnswer(start, size)
                        /\ start' = NextStart(start, size)
                        /\ lastReq' = Request("items", a.status, TRUE, size, TRUE)
                        /\ pc' = IF ShortBatch(size) THEN "manifest" ELSE "list"
                /\ UNCHANGED <<err, exitStatus, out>>
    /\ UNCHANGED <<environ, args, idx, cidx, children, files, repo, head,
                   gitLog, now, run, runsLeft, files1, head1, faultLog1>>
    /\ UNCHANGED mdvars

\* ZoteroBackup.backup, lines 191-195: list_all_items has returned; the
\* manifest is written and the loop over the items starts.
write_manifest ==
    /\ pc = "manifest"
    /\ files' = WriteFile(files, ManifestPath,
                          Content("manifest", <<Len(items)>>, now))
    /\ pc' = "item"
    /\ idx' = 1
    /\ start' = 0
    /\ starts' = <<>>
    /\ batches' = <<>>
    /\ UNCHANGED <<environ, args, remote, items, cidx, children, nreq, lastReq,
                   err, exitStatus, out, repo, head, gitLog, now, faultsLeft,
                   run, runsLeft, files1, head1, faultLog, faultLog1>>
    /\ UNCHANGED mdvars

\* ZoteroBackup.backup, lines 195-207: the item's JSON is written and its
\* children are requested.
backup_item ==
    /\ pc = "item"
    /\ idx <= Len(items)
    /\ files' = WriteFile(files, ItemPath(ItemKey(items[idx])),
                          Content("item", ItemKey(items[idx]), 0))
    /\ \E a \in JsonAnswers :
        /\ Charge(a)
        /\ nreq' = nreq + 1
        /\ IF _get(a.status) # "ok"
           THEN /\ Raise("item_children", _get(a.status))
                /\ lastReq' = Request("children", a.status, FALSE, 0, FALSE)
                /\ UNCHANGED <<remote, children, cidx>>
           ELSE \E shape \in ShapeChoices :
                /\ remote' = [remote EXCEPT !.shape = shape, !.known = TRUE]
                /\ children' = ChildrenOf(items[idx], shape)
                /\ lastReq' = Request("children", a.status, TRUE, Len(shape), TRUE)
                /\ cidx' = 1
                /\ pc' = "child"
                /\ UNCHANGED <<err, exitStatus, out>>
    /\ UNCHANGED <<environ, args, items, start, starts, batches, idx, repo,
                   head, gitLog, now, run, runsLeft, files1, head1, faultLog1>>
    /\ UNCHANGED mdvars

\* ZoteroBackup.backup, line 258: the version-control step is asked for.
CommitAlways(a) == TRUE
CommitEnabled(a) == a.commit_repo

\* ZoteroBackup.backup, lines 256-259: every item is done.
backup_complete ==
    /\ pc = "item"
    /\ idx > Len(items)
    /\ out' = out \cup {"complete"}
    /\ IF CommitEnabled(args)
       THEN pc' = "commit" /\ exitStatus' = exitStatus
       ELSE pc' = "done" /\ exitStatus' = 0
    /\ UNCHANGED <<environ, args, remote, items, start, starts, batches, idx,
                   cidx, children, files, nreq, lastReq, err, repo, head,
                   gitLog, now, faultsLeft, run, runsLeft, files1, head1,
                   faultLog, faultLog1>>
    /\ UNCHANGED mdvars

\* ZoteroBackup.backup, lines 209-224: the next child of the item; the
\* metadata of an attachment is written.
backup_child ==
    /\ pc = "child"
    /\ IF cidx > Len(children)
       THEN /\ idx' = idx + 1
            /\ pc' = "item"
            /\ children' = <<>>
            /\ UNCHANGED <<cidx, files>>
       ELSE IF children[cidx].data.itemType # "attachment"
       THEN /\ cidx' = cidx + 1
            /\ UNCHANGED <<pc, idx, children, files>>
       ELSE /\ files' = WriteFile(files, AttMetaPath(children[cidx].key),
                                  Content("attachment", children[cidx].key, 0))
            /\ pc' = IF args.include_attachments THEN "download1" ELSE "annots"
            /\ UNCHANGED <<cidx, idx, children>>
    /\ UNCHANGED <<environ, args, remote, items, start, starts, batches, nreq,
                   lastReq, err, exitStatus, out, repo, head, gitLog, now,
                   faultsLeft, run, runsLeft, files1, head1, faultLog, faultLog1>>
    /\ UNCHANGED mdvars

\* ------------------------------------------------------ get_attachment_file
\* links.get(name): the link object of that name, "absent" when there is none.
LinkObj(links, name) ==
    IF \E i \in 1..Len(links) : links[i][1] = name
    THEN links[CHOOSE i \in 1..Len(links) : links[i][1] = name][2]
    ELSE "absent"

\* get_attachment_file, lines 133-148: the name of the link whose href is
\* used, "" when no href is found.
HrefOf(links) ==
    LET hits == {c \in 1..Len(NamedLinks) : LinkObj(links, NamedLinks[c]) = "href"}
    IN  IF hits # {}
        THEN NamedLinks[CHOOSE c \in hits : \A d \in hits : c <= d]
        ELSE IF links # <<>> /\ links[1][2] = "href" THEN links[1][1]
        ELSE ""

Result(ok, exc, written, req, endpoint) ==
    [ok |-> ok, exc |-> exc, written |-> written, req |-> req,
     endpoint |-> endpoint]

\* get_attachment_file, lines 150-167: the generic endpoint /items/<key>/file.
\* Only requests.HTTPError is caught.
GenericEndpoint(attachment, a) ==
    IF attachment.key = <<>> THEN Result(FALSE, "none", "none", 0, "generic_file")
    ELSE IF _get(a.status) = "RuntimeError"
    THEN Result(FALSE, "RuntimeError", "none", 1, "generic_file")
    ELSE IF _get(a.status) = "HTTPError"
    THEN Result(FALSE, "none", "none", 1, "generic_file")
    ELSE IF a.status = 200
    THEN IF a.stream = "full"
         THEN Result(TRUE, "none", "full", 1, "generic_file")
         ELSE Result(FALSE, "ChunkedEncodingError", "partial", 1, "generic_file")
    ELSE Result(FALSE, "none", "none", 1, "generic_file")

\* get_attachment_file, lines 169-184: the href found is fetched with the
\* session; every exception is caught.
HrefDownload(a) ==
    IF a.status >= 400 THEN Result(FALSE, "none", "none", 1, "href_file")
    ELSE IF a.stream = "full" THEN Result(TRUE, "none", "full", 1, "href_file")
    ELSE Result(FALSE, "none", "partial", 1, "href_file")

\* get_attachment_file(attachment, dest_path) when the server answers a:
\* whether it returns True, the exception that leaves it, what it wrote at
\* dest_path and how many requests it made.
get_attachment_file(attachment, a) ==
    IF HrefOf(attachment.links) = ""
    THEN GenericEndpoint(attachment, a)
    ELSE HrefDownload(a)

\* ZoteroBackup.backup, lines 227-230: the name of the downloaded file,
\* slugify_name(filename or title or att_key).
FileName(child) == IF child.data.filename THEN "file" ELSE "key"

\* ZoteroBackup.backup, lines 231-241: one call of get_attachment_file, the
\* first to the file's name, the second to the attachment's key.
download ==
    /\ pc \in {"download1", "download2"}
    /\ \E a \in Answers :
        LET child == children[cidx]
            r == get_attachment_file(child, a)
            name == IF pc = "download1" THEN FileName(child) ELSE "key"
            dest == AttFilePath(child.key, name)
        IN  /\ IF r.req = 0 THEN a = PlainAnswer ELSE TRUE
            /\ Charge(a)
            /\ nreq' = nreq + r.req
            /\ lastReq' = IF r.req = 0 THEN lastReq
                          ELSE FileRequest(r.endpoint, a.status, r.exc = "none", name)
            /\ files' = IF r.written = "none" THEN files
                        ELSE WriteFile(files, dest, Content(r.written, child.key, 0))
            /\ IF r.exc # "none"
               THEN Raise("download", r.exc)
               ELSE /\ pc' = IF r.ok \/ pc = "download2" THEN "annots" ELSE "download2"
                    /\ out' = IF r.ok THEN out \cup {"saved"}
                              ELSE IF pc = "download2"
                              THEN out \cup {"skipped_download"}
                              ELSE out
                    /\ UNCHANGED <<err, exitStatus>>
    /\ UNCHANGED <<environ, args, remote, items, start, starts, batches, idx,
                   cidx, children, repo, head, gitLog, now, run, runsLeft,
                   files1, head1, faultLog1>>
    /\ UNCHANGED mdvars

\* ZoteroBackup.backup, lines 243-252: the children of the attachment are
\* requested inside try/except Exception.
fetch_annotations ==
    /\ pc = "annots"
    /\ \E a \in JsonAnswers :
        LET child == children[cidx]
        IN  /\ Charge(a)
            /\ nreq' = nreq + 1
            /\ IF _get(a.status) # "ok"
               THEN /\ out' = out \cup {"children_failed"}
                    /\ lastReq' = Request("children", a.status, FALSE, 0, FALSE)
                    /\ files' = files
               ELSE /\ lastReq' = Request("children", a.status, TRUE, child.anns, TRUE)
                    /\ files' = IF child.anns > 0
                                THEN WriteFile(files, AnnPath(child.key),
                                               Content("annotations", child.key, 0))
                                ELSE files
                    /\ out' = IF child.anns > 0 THEN out \cup {"saved_annotations"}
                              ELSE out
    /\ cidx' = cidx + 1
    /\ pc' = "child"
    /\ UNCHANGED <<environ, args, remote, items, start, starts, batches, idx,
                   children, err, exitStatus, repo, head, gitLog, now, run,
                   runsLeft, files1, head1, faultLog1>>
    /\ UNCHANGED mdvars

\* ------------------------------------------------------------------- git
NoCommit == [committed |-> FALSE, tree |-> <<>>]
GitFault(cmd) == [status |-> 0, stream |-> cmd]

\* A git command ends with result g: a failure is one of the MaxFaults faults.
GitCharge(cmd, g) ==
    IF g = "ok"
    THEN /\ faultsLeft' = faultsLeft
         /\ faultLog' = faultLog
    ELSE /\ faultsLeft > 0
         /\ faultsLeft' = faultsLeft - 1
         /\ faultLog' = faultLog \cup {<<nreq + 1, GitFault(cmd)>>}

\* _maybe_init_and_commit, lines 282-284: the default .gitignore is written
\* when the directory has none.
DefaultGitIgnoreAlways(fs) ==
    WriteFile(fs, GitIgnorePath, Content("default", <<>>, 0))
DefaultGitIgnore(fs) ==
    IF GitIgnorePath \in DOMAIN fs THEN fs
    ELSE WriteFile(fs, GitIgnorePath, Content("default", <<>>, 0))

\* _maybe_init_and_commit, lines 273-284: git rev-parse, git init when the
\* directory is no repository, and the default .gitignore when there is none.
\* What the output directory held before the first run (a repository, a
\* .gitignore of the user) is learnt here, unless it is known from the start.
git_init ==
    /\ pc = "commit"
    /\ \E r \in (IF repo = "?" THEN {"yes", "no"} ELSE {repo}),
          g \in {"ok", "fail"}, userIgnore \in BOOLEAN :
        /\ r = "yes" => g = "ok"
        /\ GitCharge("init", g)
        /\ IF g = "fail"
           THEN /\ userIgnore = FALSE
                /\ repo' = "no"
                /\ gitLog' = gitLog \o <<"rev-parse", "init">>
                /\ out' = out \cup {"init_failed"}
                /\ pc' = "done"
                /\ exitStatus' = 0
                /\ files' = files
           ELSE /\ repo' = "yes"
                /\ gitLog' = gitLog \o (IF r = "yes" THEN <<"rev-parse">>
                                        ELSE <<"rev-parse", "init">>)
                /\ userIgnore =>
                    GitIgnorePath \notin DOMAIN files /\ run = 1 /\ repo = "?"
                /\ files' = DefaultGitIgnore(
                                IF userIgnore
                                THEN WriteFile(files, GitIgnorePath,
                                               Content("user", <<>>, 0))
                                ELSE files)
                /\ pc' = "git_add"
                /\ UNCHANGED <<out, exitStatus>>
    /\ UNCHANGED <<environ, args, remote, items, start, starts, batches, idx,
                   cidx, children, nreq, lastReq, err, head, now, run,
                   runsLeft, files1, head1, faultLog1>>
    /\ UNCHANGED mdvars

\* _maybe_init_and_commit, line 288: git add .
git_add ==
    /\ pc = "git_add"
    /\ \E g \in {"ok", "fail"} :
        /\ GitCharge("add", g)
        /\ gitLog' = Append(gitLog, "add")
        /\ IF g = "fail"
           THEN /\ out' = out \cup {"git_failed"}
                /\ pc' = "done"
                /\ exitStatus' = 0
           ELSE /\ pc' = "git_commit"
                /\ UNCHANGED <<out, exitStatus>>
    /\ UNCHANGED <<environ, args, remote, items, start, starts, batches, idx,
                   cidx, children, files, nreq, lastReq, err, repo, head, now,
                   run, runsLeft, files1, head1, faultLog1>>
    /\ UNCHANGED mdvars

\* git commit has nothing to commit when the staged tree is the tree of the
\* last commit.
NothingToCommit == head.committed /\ head.tree = files

\* _maybe_init_and_commit, lines 289-293: git commit; CalledProcessError is
\* caught and reported.
git_commit ==
    /\ pc = "git_commit"
    /\ \E g \in {"ok", "fail"} :
        /\ NothingToCommit => g = "ok"
        /\ GitCharge("commit", g)
        /\ IF NothingToCommit
           THEN /\ gitLog' = Append(gitLog, "commit: nothing to commit")
                /\ out' = out \cup {"git_failed"}
                /\ head' = head
           ELSE IF g = "fail"
           THEN /\ gitLog' = Append(gitLog, "commit: failed")
                /\ out' = out \cup {"git_failed"}
                /\ head' = head
           ELSE /\ gitLog' = Append(gitLog, "commit: committed")
                /\ out' = out \cup {"committed"}
                /\ head' = [committed |-> TRUE, tree |-> files]
    /\ pc' = "done"
    /\ exitStatus' = 0
    /\ UNCHANGED <<environ, args, remote, items, start, starts, batches, idx,
                   cidx, children, files, nreq, lastReq, err, repo, now, run,
                   runsLeft, files1, head1, faultLog1>>
    /\ UNCHANGED mdvars

\* ------------------------------------------------------------ interruption
\* Where zb.backup() is running.
Running == {"list", "manifest", "item", "child", "download1", "download2",
            "annots", "commit", "git_add", "git_commit"}

\* backup(), lines 326-327: KeyboardInterrupt leaves zb.backup() and is
\* reported; the process ends normally.
interrupt ==
    /\ pc \in Running
    /\ pc' = "interrupted"
    /\ out' = out \cup {"interrupted"}
    /\ exitStatus' = 0
    /\ UNCHANGED <<environ, args, remote, items, start, starts, batches, idx,
                   cidx, children, files, nreq, lastReq, err, repo, head,
                   gitLog, now, faultsLeft, run, runsLeft, files1, head1,
                   faultLog, faultLog1>>
    /\ UNCHANGED mdvars

\* ------------------------------------------------------------ a second run
\* The command is started again, with the same environment and arguments,
\* on the output directory the first run left; the clock has moved on or not.
rerun ==
    /\ pc = "done"
    /\ runsLeft > 0
    /\ runsLeft' = runsLeft - 1
    /\ run' = run + 1
    /\ files1' = files
    /\ head1' = head
    /\ faultLog1' = faultLog
    /\ \E t \in {now, now + 1} : now' = t
    /\ pc' = "start"
    /\ items' = <<>>
    /\ idx' = 0
    /\ cidx' = 0
    /\ children' = <<>>
    /\ nreq' = 0
    /\ lastReq' = NoRequest
    /\ exitStatus' = -1
    /\ out' = {}
    /\ gitLog' = <<>>
    /\ faultLog' = {}
    /\ UNCHANGED <<environ, args, remote, start, starts, batches, files, err,
                   repo, head, faultsLeft>>
    /\ UNCHANGED mdvars

\* ---------------------------------------------------------- specifications
\* The part of the state a command that is not run leaves alone.
Idle == [pc |-> "idle"]

EnvValues == {Unset, "", "key"}
Environs == [{"ZOTERO_API_KEY", "ZOTERO_LIBRARY_ID"} -> EnvValues]
Args == [include_attachments : BOOLEAN, commit_repo : BOOLEAN,
         per_page : 1..MaxPerPage]

\* The process has started (at = "start") or is not run at all; nothing has
\* been read, requested or written.
InitBackupIn(cap, at, dir) ==
    /\ remote = NoRemote(cap)
    /\ pc = at
    /\ items = <<>>
    /\ start = 0
    /\ starts = <<>>
    /\ batches = <<>>
    /\ idx = 0
    /\ cidx = 0
    /\ children = <<>>
    /\ files = dir.files
    /\ nreq = 0
    /\ lastReq = NoRequest
    /\ err = NoError
    /\ exitStatus = -1
    /\ out = {}
    /\ repo = dir.repo
    /\ head = NoCommit
    /\ gitLog = <<>>
    /\ now = 0
    /\ faultsLeft = MaxFaults
    /\ run = 1
    /\ files1 = <<>>
    /\ head1 = NoCommit
    /\ faultLog = {}
    /\ faultLog1 = {}

\* The output directory is empty, and whether it is a repository is not
\* known yet.
InitBackup(cap, at) == InitBackupIn(cap, at, [repo |-> "?", files |-> <<>>])

InitRun(cap) ==
    /\ ex = Idle
    /\ tg = Idle
    /\ fl = Idle
    /\ InitBackup(cap, "start")

\* One run of the backup command, under any environment and any arguments.
Init ==
    /\ environ \in Environs
    /\ args \in Args
    /\ runsLeft = 0
    /\ InitRun(MaxItems)

Next ==
    \/ backup_main
    \/ list_all_items
    \/ write_manifest
    \/ backup_item
    \/ backup_complete
    \/ backup_child
    \/ download
    \/ fetch_annotations
    \/ git_init
    \/ git_add
    \/ git_commit
    \/ interrupt

Spec == Init /\ [][Next]_vars

\* Two runs of the backup command, one after the other, with the credentials
\* set and the largest page size.
InitTwice ==
    /\ environ = [v \in {"ZOTERO_API_KEY", "ZOTERO_LIBRARY_ID"} |-> "key"]
    /\ args \in {a \in Args : a.per_page = MaxPerPage}
    /\ runsLeft = 1
    /\ InitRun(MaxItems)

NextTwice ==
    \/ backup_main
    \/ list_all_items
    \/ write_manifest
    \/ backup_item
    \/ backup_complete
    \/ backup_child
    \/ download
    \/ fetch_annotations
    \/ git_init
    \/ git_add
    \/ git_commit
    \/ rerun

SpecTwice == InitTwice /\ [][NextTwice]_vars

\* The output directories a run may find: a repository or not, with a
\* .gitignore of the user or none.
OutputDirs ==
    [repo : {"yes", "no"},
     files : {<<>>, WriteFile(<<>>, GitIgnorePath, Content("user", <<>>, 0))}]

\* One run of the backup command with the credentials set, in an output
\* directory whose state is known from the start.
InitGit ==
    /\ environ = [v \in {"ZOTERO_API_KEY", "ZOTERO_LIBRARY_ID"} |-> "key"]
    /\ args \in Args
    /\ runsLeft = 0
    /\ ex = Idle
    /\ tg = Idle
    /\ fl = Idle
    /\ \E dir \in OutputDirs : InitBackupIn(MaxItems, "start", dir)

SpecGit == InitGit /\ [][Next]_vars

\* list_all_items on its own: the object is built, the listing starts, and
\* the server holds up to MaxPaged items.
InitPaging ==
    /\ environ = [v \in {"ZOTERO_API_KEY", "ZOTERO_LIBRARY_ID"} |-> "key"]
    /\ args \in Args
    /\ runsLeft = 0
    /\ InitRun(MaxPaged)

NextPaging ==
    \/ backup_main
    \/ list_all_items

SpecPaging == InitPaging /\ [][NextPaging]_vars

\* ================================================== the Markdown exporter
\* --limit ranges over 1..MaxLimit.
MaxLimit == 2
\* First and last names have at most MaxNameLen characters.
MaxNameLen == 2
\* Titles are cut to TitleLimit characters (100 in the code, line 35) and
\* have at most TitleLimit + 1.
TitleLimit == 2
\* Item keys have 1..MaxKeyLen characters.
MaxKeyLen == 2

\* Strings are sequences of characters.
UpperLetters == <<"A", "B", "C", "D", "E", "F", "G", "H", "I", "J", "K", "L", "M",
                  "N", "O", "P", "Q", "R", "S", "T", "U", "V", "W", "X", "Y", "Z">>
LowerLetters == <<"a", "b", "c", "d", "e", "f", "g", "h", "i", "j", "k", "l", "m",
                  "n", "o", "p", "q", "r", "s", "t", "u", "v", "w", "x", "y", "z">>
Digits == {"0", "1", "2", "3", "4", "5", "6", "7", "8", "9"}
Whitespace == {" "}

\* str.lower
LowerChar(c) ==
    IF \E i \in 1..26 : UpperLetters[i] = c
    THEN LowerLetters[CHOOSE i \in 1..26 : UpperLetters[i] = c]
    ELSE c
Lower(s) == [i \in 1..Len(s) |-> LowerChar(s[i])]

\* str.strip(chars): the characters of `chars` are dropped at both ends.
RECURSIVE LStrip(_, _)
LStrip(s, chars) ==
    IF s # <<>> /\ Head(s) \in chars THEN LStrip(Tail(s), chars) ELSE s
RECURSIVE RStrip(_, _)
RStrip(s, chars) ==
    IF s # <<>> /\ s[Len(s)] \in chars
    THEN RStrip(SubSeq(s, 1, Len(s) - 1), chars)
    ELSE s
Strip(s, chars) == RStrip(LStrip(s, chars), chars)

\* The characters the class [a-z0-9] matches.
SlugChar(c) == (\E i \in 1..26 : LowerLetters[i] = c) \/ c \in Digits

\* re.sub(r'[^a-z0-9]+', '-', s): every maximal run of other characters
\* becomes one hyphen.  inRun: the character before was replaced.
RECURSIVE SubRuns(_, _)
SubRuns(s, inRun) ==
    IF s = <<>> THEN <<>>
    ELSE IF SlugChar(Head(s)) THEN <<Head(s)>> \o SubRuns(Tail(s), FALSE)
    ELSE IF inRun THEN SubRuns(Tail(s), TRUE)
    ELSE <<"-">> \o SubRuns(Tail(s), TRUE)

\* slugify, lines 7-9.
slugifyNoStrip(value) == SubRuns(Lower(value), FALSE)
slugify(value) == Strip(SubRuns(Lower(value), FALSE), {"-"})

\* A creator; a field the record lacks reads as "" (c.get(field, "")).
Creator(type, first, last) ==
    [creatorType |-> type, firstName |-> first, lastName |-> last]

\* write_markdown_for_item, line 27.
TaggedRoles == {"author", "editor"}

\* write_markdown_for_item, lines 26-31: the tags one creator adds to
\* author_tags.
AuthorTags(c) ==
    IF c.creatorType \in TaggedRoles
    THEN LET first == Lower(Strip(c.firstName, Whitespace))
             last == Lower(Strip(c.lastName, Whitespace))
         IN  IF last # <<>>
             THEN << <<"#">> \o slugify(first \o <<"-">> \o last) >>
             ELSE <<>>
    ELSE <<>>

\* write_markdown_for_item, lines 25-31, for the creator of the state.
author_tags ==
    /\ tg.pc = "start"
    /\ tg' = [tg EXCEPT !.pc = "done", !.tags = AuthorTags(tg.creator)]
    /\ UNCHANGED <<bvars, ex, fl>>

\* write_markdown_for_item, line 35: the characters replaced by "_".
Illegal == {"\\", "/", "*", "?", ":", "\"", "<", ">", "|"}
Untitled == <<"U", "n", "t", "i", "t", "l", "e", "d">>
untitled == <<"u", "n", "t", "i", "t", "l", "e", "d">>

\* write_markdown_for_item, lines 19 and 35: the title (Untitled when the
\* data has none), sanitized and cut.
SafeTitle(item) ==
    LET title == IF item.hasTitle THEN item.title ELSE Untitled
        clean == [i \in 1..Len(title) |->
                    IF title[i] \in Illegal THEN "_" ELSE title[i]]
    IN  SubSeq(clean, 1, Min(Len(clean), TitleLimit))

\* write_markdown_for_item, line 36.
FilenameNoSeparator(item) ==
    (IF SafeTitle(item) # <<>> THEN SafeTitle(item) ELSE untitled)
        \o item.key \o <<".", "m", "d">>
Filename(item) ==
    (IF SafeTitle(item) # <<>> THEN SafeTitle(item) ELSE untitled)
        \o <<"_">> \o item.key \o <<".", "m", "d">>

\* write_markdown_for_item, lines 34-37 and 80, for the item of the state:
\* the file is written under the name made of its title and key.
markdown_filename ==
    /\ fl.pc = "start"
    /\ fl' = [fl EXCEPT !.pc = "done", !.filename = Filename(fl.item)]
    /\ UNCHANGED <<bvars, ex, tg>>

\* --------------------------------------------------------------- export()
\* The children lists and the lists under an attachment the server may
\* answer with, as the types of the children.
KidLists ==
    { <<>>, <<"note">>, <<"attachment">>, <<"attachment", "attachment">>,
      <<"note", "attachment">> }
GrandLists ==
    { <<>>, <<"annotation">>, <<"note">>, <<"note", "annotation">> }

\* query_attachments, lines 53-55, and query_annotations, lines 62-64: the
\* positions of the children kept.
IsAnything(type) == TRUE
IsAttachment(type) == type = "attachment"
IsAnnotation(type) == type = "annotation"
Attachments(raw) == {j \in 1..Len(raw) : IsAttachment(raw[j])}
Annotations(raw) == {k \in 1..Len(raw) : IsAnnotation(raw[k])}

\* ZoteroClient.__init__, lines 22-29: a credential is missing.
MissingCredential(api_key, library_id) == ~Truthy(api_key) \/ ~Truthy(library_id)

\* response.raise_for_status() in the three queries of ZoteroClient.
RaisesForStatus(status) == status >= 400

ExportRaise(at) == [ex EXCEPT !.pc = "raised", !.err = at, !.nreq = @ + 1]

\* export(), lines 90-94: the client is built (ValueError when a credential
\* is missing) and the top-level items are queried, at most `limit` of them.
export_start ==
    /\ ex.pc = "start"
    /\ \/ /\ MissingCredential(environ["ZOTERO_API_KEY"], environ["ZOTERO_LIBRARY_ID"])
          /\ ex' = [ex EXCEPT !.pc = "raised", !.err = "ValueError"]
       \/ /\ ~MissingCredential(environ["ZOTERO_API_KEY"], environ["ZOTERO_LIBRARY_ID"])
          /\ \E status \in Statuses \ {204} :
                IF RaisesForStatus(status)
                THEN ex' = ExportRaise("query_items")
                ELSE \E n \in 0..ex.limit :
                        ex' = [ex EXCEPT !.pc = "item", !.n = n, !.idx = 1,
                                         !.nreq = @ + 1,
                                         !.written = [i \in 1..n |-> 0],
                                         !.skipped = [i \in 1..n |-> 0]]
    /\ UNCHANGED <<bvars, tg, fl>>

\* export(), lines 96-98: the attachments of the next item are queried.
export_item ==
    /\ ex.pc = "item"
    /\ ex.idx <= ex.n
    /\ \E status \in Statuses \ {204} :
        IF RaisesForStatus(status)
        THEN ex' = ExportRaise("query_attachments")
        ELSE \E raw \in KidLists :
                ex' = [ex EXCEPT !.pc = "attachment",
                                 !.nreq = @ + 1,
                                 !.kids = Append(@, raw),
                                 !.grand = Append(@, [j \in 1..Len(raw) |-> <<>>]),
                                 !.attachments = Attachments(raw),
                                 !.byAttachment = {}]
    /\ UNCHANGED <<bvars, tg, fl>>

\* export(), lines 99-105: the annotations of the next attachment of the
\* item are queried; the attachment is kept when there are some.
export_attachment ==
    /\ ex.pc = "attachment"
    /\ ex.attachments # {}
    /\ LET att == CHOOSE j \in ex.attachments : \A k \in ex.attachments : j <= k
       IN  \E status \in Statuses \ {204} :
            IF RaisesForStatus(status)
            THEN ex' = ExportRaise("query_annotations")
            ELSE \E raw \in GrandLists :
                    ex' = [ex EXCEPT !.nreq = @ + 1,
                                     !.grand[ex.idx][att] = raw,
                                     !.attachments = @ \ {att},
                                     !.byAttachment =
                                        IF Annotations(raw) # {}
                                        THEN @ \cup {att} ELSE @]
    /\ UNCHANGED <<bvars, tg, fl>>

\* export(), lines 107-110: the Markdown file of the item is written, or
\* the item is reported as skipped.
export_write ==
    /\ ex.pc = "attachment"
    /\ ex.attachments = {}
    /\ ex' = IF ex.byAttachment # {}
             THEN [ex EXCEPT !.pc = "item", !.idx = @ + 1,
                             !.written[ex.idx] = @ + 1]
             ELSE [ex EXCEPT !.pc = "item", !.idx = @ + 1,
                             !.skipped[ex.idx] = @ + 1]
    /\ UNCHANGED <<bvars, tg, fl>>

\* export(): the loop over the items ends.
export_done ==
    /\ ex.pc = "item"
    /\ ex.idx > ex.n
    /\ ex' = [ex EXCEPT !.pc = "done"]
    /\ UNCHANGED <<bvars, tg, fl>>

\* The backup command is not run.
InitNoBackup ==
    /\ args = [include_attachments |-> TRUE, commit_repo |-> TRUE, per_page |-> 1]
    /\ runsLeft = 0
    /\ InitBackup(0, "idle")

\* One run of the export command, under any environment and any --limit.
InitExport ==
    /\ environ \in Environs
    /\ InitNoBackup
    /\ ex \in [pc : {"start"}, limit : 1..MaxLimit, n : {0}, idx : {0},
               nreq : {0}, kids : {<<>>}, grand : {<<>>}, attachments : {{}},
               byAttachment : {{}}, written : {<<>>}, skipped : {<<>>},
               err : {"none"}]
    /\ tg = Idle
    /\ fl = Idle

NextExport ==
    \/ export_start
    \/ export_item
    \/ export_attachment
    \/ export_write
    \/ export_done

SpecExport == InitExport /\ [][NextExport]_vars

\* The characters of the names tried, and the names of the spec's example.
NameChars == {"A", "a", " ", ".", "-"}
JaneQ == <<"J", "a", "n", "e", " ", "Q", ".">>
Jane == <<"J", "a", "n", "e">>
Doe == <<"D", "o", "e">>
Names == SeqUpTo(NameChars, MaxNameLen) \cup {JaneQ, Jane, Doe}
Roles == {"author", "editor", "contributor", "translator"}

\* write_markdown_for_item is about to make the tags of one creator.
InitTags ==
    /\ environ = [v \in {"ZOTERO_API_KEY", "ZOTERO_LIBRARY_ID"} |-> "key"]
    /\ InitNoBackup
    /\ ex = Idle
    /\ fl = Idle
    /\ \E type \in Roles, first \in Names, last \in Names :
        tg = [pc |-> "start", creator |-> Creator(type, first, last),
              tags |-> <<>>]

SpecTags == InitTags /\ [][author_tags]_vars

\* The characters of the titles and of the keys tried: an ordinary one that
\* keys have too, the separator, an illegal one.
TitleChars == {"A", "_", "/"}
KeyChars == {"A", "7"}
Titles == SeqUpTo(TitleChars, TitleLimit + 1)
Keys == SeqUpTo(KeyChars, MaxKeyLen) \ {<<>>}
Items == [title : Titles, hasTitle : {TRUE}, key : Keys]
            \cup [title : {<<>>}, hasTitle : {FALSE}, key : Keys]

\* write_markdown_for_item is about to name the file of one item.
InitFilename ==
    /\ environ = [v \in {"ZOTERO_API_KEY", "ZOTERO_LIBRARY_ID"} |-> "key"]
    /\ InitNoBackup
    /\ ex = Idle
    /\ tg = Idle
    /\ \E item \in Items : fl = [pc |-> "start", item |-> item, filename |-> <<>>]

SpecFilename == InitFilename /\ [][markdown_filename]_vars

\* ==================================================================== claims

\* -------------------------------------------------------------------- C1
\* The batches list_all_items received so far, one after the other.
RECURSIVE ConsumedBatches(_)
ConsumedBatches(k) ==
    IF k = 0 THEN <<>>
    ELSE ConsumedBatches(k - 1) \o PageAnswer(starts[k], batches[k])

\* C1: whatever batches the server returns, list_all_items goes on only after
\* full batches and returns right after the first batch that is empty or
\* shorter than per_page; it has then made exactly one request per batch
\* consumed, each with start equal to the number of items collected before
\* it, and it returns the consumed batches concatenated in order.
C1_Pagination ==
    /\ pc = "list" =>
        /\ Len(starts) = Len(batches)
        /\ \A k \in 1..Len(batches) : batches[k] = args.per_page
    /\ pc = "manifest" =>
        /\ Len(batches) >= 1
        /\ Len(starts) = Len(batches)
        /\ nreq = Len(batches)
        /\ \A k \in 1..(Len(batches) - 1) : batches[k] = args.per_page
        /\ batches[Len(batches)] < args.per_page
        /\ batches = SubSeq(remote.script, 1, Len(batches))
        /\ \A k \in 1..Len(batches) : starts[k] = Sum(SubSeq(batches, 1, k - 1))
        /\ items = ConsumedBatches(Len(batches))
        /\ Len(items) = Sum(batches)

\* Two full batches and a short one: five items in three requests (the
\* spec's 100, 100, 37 with per_page 2).
C1_Witness ==
    /\ pc = "manifest"
    /\ args.per_page = 2
    /\ batches = <<2, 2, 1>>
    /\ starts = <<0, 2, 4>>
    /\ items = <<1, 2, 3, 4, 5>>
    /\ nreq = 3

\* -------------------------------------------------------------------- C2
EnvMissing ==
    \/ environ["ZOTERO_API_KEY"] \in {Unset, ""}
    \/ environ["ZOTERO_LIBRARY_ID"] \in {Unset, ""}

\* C2: started with the API key or the library identifier unset or empty,
\* the backup command exits with status 2 and has made no request (and
\* written nothing), whatever the flags are.
C2_MissingEnvExits2 ==
    (EnvMissing /\ pc # "start") =>
        /\ pc = "exit"
        /\ exitStatus = 2
        /\ nreq = 0
        /\ files = <<>>
        /\ gitLog = <<>>

\* The library identifier is set, the key is empty, and committing and
\* downloading are asked for.
C2_Witness ==
    /\ pc = "exit"
    /\ exitStatus = 2
    /\ environ["ZOTERO_API_KEY"] = ""
    /\ environ["ZOTERO_LIBRARY_ID"] = "key"
    /\ args.commit_repo
    /\ args.include_attachments

\* -------------------------------------------------------------------- C4
\* None of the links enclosure, file, link, attachment has an href.
NoNamedHref(links) ==
    \A i \in 1..Len(links) :
        links[i][1] \in {"enclosure", "file", "link", "attachment"}
            => links[i][2] # "href"

\* C4: when no named link of the attachment has an href and the generic file
\* endpoint answers with a status other than 200 (429 included),
\* get_attachment_file returns False: no exception leaves it and no file is
\* at the destination path.
C4_FallbackFailsQuietly ==
    (/\ lastReq.kind = "generic_file"
     /\ lastReq.status # 200
     /\ NoNamedHref(children[cidx].links)) =>
        /\ pc # "raised"
        /\ err = NoError
        /\ AttFilePath(children[cidx].key, lastReq.dest) \notin DOMAIN files

\* -------------------------------------------------------------------- C5
\* The files under items/, attachments/ and annotations/.
BackupFiles(fs) ==
    [p \in {q \in DOMAIN fs : q.dir \in {"items", "attachments", "annotations"}}
        |-> fs[p]]

\* The output directories hold the same files with the same contents, the
\* fetched_at of the manifest apart.
SameBackup(fs, gs) ==
    /\ BackupFiles(fs) = BackupFiles(gs)
    /\ ManifestPath \in DOMAIN fs
    /\ ManifestPath \in DOMAIN gs
    /\ fs[ManifestPath].of = gs[ManifestPath].of

\* The answers of the server that were no plain success.
HttpFaults(log) == {e \in log : e[2].status # 0}

C6_SecondCommitEmpty ==
    (/\ run = 2
     /\ pc = "done"
     /\ args.commit_repo
     /\ head1.committed
     /\ faultLog = {}
     /\ faultLog1 = {}) =>
        /\ gitLog = <<"rev-parse", "add", "commit: nothing to commit">>
        /\ "git_failed" \in out
        /\ head = head1
        /\ exitStatus = 0

\* -------------------------------------------------------------------- C7
\* C7: every answered request to the paginated items endpoint and every
\* answered children request is followed by the sleep, whatever the size of
\* the list in the answer.
C7_SleepAfterEveryRequest ==
    (lastReq.kind \in {"items", "children"} /\ lastReq.answered) => lastReq.slept

\* -------------------------------------------------------------------- C8
\* C8: no failure of an attachment's file download or of its children
\* request leaves backup(): the run goes on.
C8_AttachmentFailureContained ==
    pc = "raised" => err.at \notin {"download", "attachment_children"}


\* The item at position i of the export run has an attachment with at least
\* one annotation-typed child, by the answers of the server.
Annotated(i) ==
    \E j \in 1..Len(ex.kids[i]) :
        /\ ex.kids[i][j] = "attachment"
        /\ \E k \in 1..Len(ex.grand[i][j]) : ex.grand[i][j][k] = "annotation"

\* C3: in the export run, every item returned and processed that has no
\* attachment with an annotation-typed child gets no file and one skip
\* notice; every other processed item gets exactly one file and no skip
\* notice; an item not processed yet has neither; no item has both.
C3_SkipOrWrite ==
    ex.pc # "idle" =>
        \A i \in 1..ex.n :
            /\ ex.written[i] + ex.skipped[i] <= 1
            /\ i < ex.idx =>
                IF Annotated(i)
                THEN ex.written[i] = 1 /\ ex.skipped[i] = 0
                ELSE ex.written[i] = 0 /\ ex.skipped[i] = 1
            /\ i >= ex.idx => ex.written[i] = 0 /\ ex.skipped[i] = 0

\* The run ended after two items: the first has an attachment whose only
\* child is a note and is skipped, the second has a note and an annotated
\* attachment and is written.
C3_Witness ==
    /\ ex.pc = "done"
    /\ ex.n = 2
    /\ ex.kids = << <<"attachment">>, <<"note", "attachment">> >>
    /\ ex.grand[1][1] = <<"note">>
    /\ ex.grand[2][2] = <<"note", "annotation">>
    /\ ex.skipped = <<1, 0>>
    /\ ex.written = <<0, 1>>

\* The maximal runs of characters a-z, 0-9 of s, in order; cur is the run
\* being read.
RECURSIVE Words(_, _)
Words(s, cur) ==
    LET closed == IF cur = <<>> THEN <<>> ELSE <<cur>>
    IN  IF s = <<>> THEN closed
        ELSE IF SlugChar(Head(s)) THEN Words(Tail(s), Append(cur, Head(s)))
        ELSE closed \o Words(Tail(s), <<>>)

RECURSIVE HyphenJoin(_)
HyphenJoin(ws) ==
    IF ws = <<>> THEN <<>>
    ELSE IF Len(ws) = 1 THEN ws[1]
    ELSE ws[1] \o <<"-">> \o HyphenJoin(Tail(ws))

TagJaneDoe == <<"#", "j", "a", "n", "e", "-", "d", "o", "e">>
TagJaneQDoe == <<"#", "j", "a", "n", "e", "-", "q", "-", "d", "o", "e">>

\* C9 as stated: every author or editor yields one tag, the author with
\* first name "Jane Q." and last name "Doe" yields exactly #jane-doe, and a
\* creator with any other role yields no tag.
C9_Original ==
    tg.pc = "done" =>
        /\ tg.creator.creatorType \in {"author", "editor"} => Len(tg.tags) = 1
        /\ tg.creator = Creator("author", JaneQ, Doe) => tg.tags = <<TagJaneDoe>>
        /\ tg.creator.creatorType \notin {"author", "editor"} => tg.tags = <<>>

\* C9, amended: an author or editor whose last name is not blank yields one
\* tag, '#' followed by the runs of a-z, 0-9 of the lowercased
\* "<first>-<last>" joined by hyphens (#jane-q-doe for "Jane Q.", "Doe");
\* an author or editor with a blank last name and a creator with any other
\* role yield no tag.
C9_AuthorTags ==
    tg.pc = "done" =>
        LET c == tg.creator
            blank == \A i \in 1..Len(c.lastName) : c.lastName[i] = " "
        IN  IF c.creatorType \in {"author", "editor"} /\ ~blank
            THEN tg.tags =
                    << <<"#">> \o HyphenJoin(Words(
                        Lower(c.firstName \o <<"-">> \o c.lastName), <<>>)) >>
            ELSE tg.tags = <<>>

\* The author "Jane Q." "Doe" got the tag #jane-q-doe.
C9_Witness ==
    /\ tg.pc = "done"
    /\ tg.creator = Creator("author", JaneQ, Doe)
    /\ tg.tags = <<TagJaneQDoe>>

\* C10: the file name of an item differs from the file name of every item
\* with another key, whatever the two titles (absent, empty, with '_', cut
\* to the same prefix).
C10_FilenameInjectiveInKey ==
    fl.pc = "done" =>
        \A other \in Items :
            other.key # fl.item.key => Filename(other) # fl.filename

\* The file of an item with a title longer than the cut and a '_' in it was
\* named, and an item with another key and another title has the same
\* sanitized, cut title.
C10_Witness ==
    /\ fl.pc = "done"
    /\ Len(fl.item.title) > TitleLimit
    /\ \E i \in 1..TitleLimit : fl.item.title[i] = "_"
    /\ \E other \in Items :
        /\ other.key # fl.item.key
        /\ other.title # fl.item.title
        /\ SafeTitle(other) = SafeTitle(fl.item)


\* The number of commands of gitLog that start with the given word:
\* rev-parse, init, add, or a commit with any outcome.
GitCount(cmds) == Cardinality({k \in 1..Len(gitLog) : gitLog[k] \in cmds})
CommitEntries ==
    {"commit: committed", "commit: failed", "commit: nothing to commit"}

\* C11: in a backup run each git command is run at most once, and only with
\* committing enabled, after the manifest is written and every listed item
\* is processed; a run that an API error or an interruption stops before
\* that has run no git command and left no repository, commit or
\* .gitignore; an interruption is reported and ends the process normally,
\* any other error is logged and raised again.
C11_GitStepLast ==
    /\ GitCount({"rev-parse"}) <= 1
    /\ GitCount({"init"}) <= 1
    /\ GitCount({"add"}) <= 1
    /\ GitCount(CommitEntries) <= 1
    /\ (gitLog # <<>> \/ pc \in {"commit", "git_add", "git_commit"}) =>
        /\ args.commit_repo
        /\ "complete" \in out
        /\ ManifestPath \in DOMAIN files
        /\ idx > Len(items)
        /\ \A i \in 1..Len(items) : ItemPath(ItemKey(items[i])) \in DOMAIN files
    /\ (pc \in {"raised", "interrupted"} /\ "complete" \notin out) =>
        /\ gitLog = <<>>
        /\ repo = "?"
        /\ head = NoCommit
        /\ GitIgnorePath \notin DOMAIN files
    /\ pc = "interrupted" =>
        /\ "interrupted" \in out
        /\ "error" \notin out
        /\ err = NoError
        /\ exitStatus = 0
    /\ pc = "raised" =>
        /\ "error" \in out
        /\ err # NoError
        /\ exitStatus = 1

\* A run over MaxItems items ended with a new repository and a commit.
C11_Witness ==
    /\ pc = "done"
    /\ Len(items) = MaxItems
    /\ gitLog = <<"rev-parse", "init", "add", "commit: committed">>
    /\ head.committed

\* The git commands the step adds to gitLog.
NewGitCommands == {gitLog'[k] : k \in (Len(gitLog) + 1)..Len(gitLog')}

\* One step of a run leaves the output directory as the version-control step
\* must: see C12.
GitStepFrame ==
    /\ "init" \in NewGitCommands => repo = "no"
    /\ repo = "yes" => repo' = "yes"
    /\ GitIgnorePath \in DOMAIN files =>
        /\ GitIgnorePath \in DOMAIN files'
        /\ files'[GitIgnorePath] = files[GitIgnorePath]
    /\ (GitIgnorePath \notin DOMAIN files /\ GitIgnorePath \in DOMAIN files') =>
        /\ files'[GitIgnorePath] = Content("default", <<>>, 0)
        /\ pc = "commit"
        /\ repo' = "yes"
    /\ pc \in {"commit", "git_add", "git_commit"} =>
        \A p \in DOMAIN files : p \in DOMAIN files' /\ files'[p] = files[p]
    /\ NewGitCommands \cap ({"add"} \cup CommitEntries) # {} => repo = "yes"
    /\ (pc = "commit" /\ pc' = "git_add") => repo' = "yes"
    /\ ("init_failed" \in out' \ out) =>
        /\ files' = files
        /\ NewGitCommands = {"rev-parse", "init"}
        /\ pc' = "done"
    /\ ("git_failed" \in out' \ out) =>
        /\ pc' = "done"
        /\ exitStatus' = 0
        /\ err' = NoError
        /\ "error" \notin out'
        /\ head' = head

\* C12: git init is run only in a directory that is not a repository, and a
\* repository stays one; a .gitignore that exists is never changed, and the
\* one written when there is none is the default; no other file is touched
\* by the version-control step; add and commit are run only in a repository
\* (found or just initialised), never after a failed init; a failing add or
\* commit is reported and the process ends normally with nothing committed.
C12_GitStepFrame == [][GitStepFrame]_vars

\* A run in a directory that was no repository and had a .gitignore of the
\* user ended normally after init, add and a commit that failed; the
\* .gitignore is the user's.
C12_Witness ==
    /\ pc = "done"
    /\ exitStatus = 0
    /\ gitLog = <<"rev-parse", "init", "add", "commit: failed">>
    /\ "git_failed" \in out
    /\ GitIgnorePath \in DOMAIN files
    /\ files[GitIgnorePath] = Content("user", <<>>, 0)
    /\ Len(items) > 0
====
